---------------------------- MODULE Spec2Model ----------------------------
(***************************************************************************)
(* Model of the OCR pipeline's coordination code:                         *)
(*   - TaskPool              (src/src/ocr/task-pool.ts)                    *)
(*   - SchedulerMultiplexor  (src/src/ocr/scheduler-multiplexor.ts)        *)
(*   - OCR.updateHistory     (src/src/ocr/index.ts)                        *)
(* JavaScript runs one synchronous segment at a time, so every action is   *)
(* one such segment: the code between two suspension points (await,        *)
(* promise callback).                                                      *)
(***************************************************************************)
EXTENDS Integers, Sequences, FiniteSets, TLC

\* Largest number of tasks (options.count) a modelled TaskPool is built with.
MaxCount == 3
\* Largest concurrency limit (options.limit) a modelled TaskPool is built with.
MaxLimit == 3
\* Largest number of getScheduler calls made by callers (the constructor's
\* own calls, one per key, come on top).
MaxCalls == 1
\* Longest per-field history list a caller supplies to the constructor.
MaxSupplied == 2
\* Largest options.historyLimit of a modelled OCR object.
MaxHistoryLimit == 2
\* Largest number of lines the engine returns for the ID card's view.
MaxLines == 4
\* Longest month token of a date text given to the date correctors.
MaxTokenLen == 4

\* Longest text given to the alphabet corrector.
MaxTextLen == 5
\* Longest text and longest history entry given to correctByHistory and
\* correctEnums.
MaxEntryLen == 2

VARIABLES
  \* ---- TaskPool ----
  options,      \* this.options: [count, limit]
  method,       \* which of run() / latest() was invoked ("none" before)
  callPc,       \* position of run()/latest(): constructed, running, returned, thrown
  tracker,      \* the TaskPoolTaskTracker shared by the lanes
  lanes,        \* one entry per runInner chain started by the for loop
  results,      \* run(): the indices of the results array that hold a value
  result,       \* latest(): <<>> is null, <<v>> a stored value
  finished,     \* the closure counter of the promise executor
  outcome,      \* the promise of the executor: [state, error]
  retval,       \* what run()/latest() returned, or the error it threw
  inflight,     \* task indices whose promise was created and has not settled
  taskResult,   \* per task index: the result type its promise settled with
  scBy,         \* <<i>> once task i raised tracker.shortCircuit
  settled,      \* the task indices in the order their promises settled
  \* ---- SchedulerMultiplexor ----
  configs,      \* this.configs: per key [count, params]
  schedulers,   \* this.schedulers: per key <<>> (unset) or <<scheduler id>>
  calls,        \* every getScheduler call made so far, in call order
  termPc,       \* position of terminate(): none, awaiting, resolved
  \* ---- OCR history ----
  historyLimit, \* this.options.historyLimit
  history,      \* this.options.history: per field key a list, or Undefined
  payload,      \* the argument of the last updateHistory call
  oldHistory,   \* this.options.history as it was before that call
  \* ---- PassportOCR.run / KTPCardOCR.run ----
  doc,          \* which reader runs: "none", "passport" or "ktp"
  runPc,        \* position of run(): idle, locateTop, locateBottom, reading,
                \* returned, rejected
  reads,        \* what the engine gives for each read of the input
  pending,      \* the read promises of run() that have not settled
  readResult,   \* run()'s `result` object: per key a read result or NoRead
  jobs,         \* the stages whose recognition jobs were submitted, in order
  anchors,      \* per locator stage that finished: whether it found its anchor
  canvas,       \* this.canvas: the raw input, cropped to the top anchor, or
                \* cut to the canonical view
  runReturn,    \* the payload run() resolved with, or the error it rejected with
  \* ---- correctors ----
  fn,           \* the corrector that was called ("none" before the call)
  arg,          \* its arguments
  ret           \* <<>> before the call, <<r>> once it returned r

poolVars == <<options, method, callPc, tracker, lanes, results, result,
              finished, outcome, retval, inflight, taskResult, scBy, settled>>

muxVars == <<configs, schedulers, calls, termPc>>

histVars == <<historyLimit, history, payload, oldHistory>>

runVars == <<doc, runPc, reads, pending, readResult, jobs, anchors, canvas, runReturn>>

corrVars == <<fn, arg, ret>>

vars == <<poolVars, muxVars, histVars, runVars, corrVars>>

(***************************************************************************)
(* TaskPool                                                                *)
(***************************************************************************)

\* enum TaskResultStatus
TaskResultStatus == {"complete", "ignore", "error", "short-circuit"}

\* The value task i produces: tasks are told apart by their index.
ValueOf(i) == i

\* The tracker object literal of run() and latest().
NewTracker(count) == [index |-> 0, target |-> count, shortCircuit |-> FALSE]

\* runInner, first statement: abandon when the flag is raised or the index
\* has reached the target.
Abandon(tr) == tr.shortCircuit \/ tr.index = tr.target

\* runInner after a task's result arrived: the flag check that discards the
\* result of a task that finishes after a short circuit.
DiscardResult_Never(tr) == FALSE

DiscardResult(tr) == tr.shortCircuit

\* runInner, case ShortCircuit: raise the flag.
RaiseShortCircuit_Forgotten(tr) == tr

RaiseShortCircuit(tr) == [tr EXCEPT !.shortCircuit = TRUE]

\* The bound of the for loop that starts the lanes.
LaneCount_OneMore(limit) == limit + 1

LaneCount(limit) == limit

\* A lane whose runInner promise is fulfilled / rejected / awaiting task i.
LaneResolved == [pc |-> "resolved", index |-> 0]
LaneRejected(i) == [pc |-> "rejected", index |-> i]
LaneAwaiting(i) == [pc |-> "awaitTask", index |-> i]
LaneDone == [pc |-> "done", index |-> 0]

\* One entry into runInner, up to its first await: either it returns at once
\* or it claims tracker.index and calls this.task(index).
EnterRunInner_NoIncrement(tr) ==
  IF Abandon(tr)
    THEN [tracker |-> tr, lane |-> LaneResolved, started |-> {}]
    ELSE [tracker |-> tr, lane |-> LaneAwaiting(tr.index), started |-> {tr.index}]

EnterRunInner(tr) ==
  IF Abandon(tr)
    THEN [tracker |-> tr, lane |-> LaneResolved, started |-> {}]
    ELSE [tracker |-> [tr EXCEPT !.index = tr.index + 1],
          lane |-> LaneAwaiting(tr.index),
          started |-> {tr.index}]

\* The for loop of run()/latest(): n calls of runInner, one after the other.
RECURSIVE StartLanes(_, _)
StartLanes(tr, n) ==
  IF n = 0
    THEN [tracker |-> tr, lanes |-> <<>>, started |-> {}]
    ELSE LET before == StartLanes(tr, n - 1)
             e == EnterRunInner(before.tracker)
         IN [tracker |-> e.tracker,
             lanes |-> Append(before.lanes, e.lane),
             started |-> before.started \cup e.started]

\* results.filter(x => x !== undefined): the stored values in index order.
RECURSIVE Filtered(_, _, _)
Filtered(stored, i, count) ==
  IF i >= count THEN <<>>
  ELSE (IF i \in stored THEN <<ValueOf(i)>> ELSE <<>>) \o Filtered(stored, i + 1, count)

\* new TaskPool(task, {count, limit}): nothing has run yet.
InitPoolWith(o) ==
  /\ options = o
  /\ method = "none"
  /\ callPc = "constructed"
  /\ tracker = NewTracker(options.count)
  /\ lanes = <<>>
  /\ results = {}
  /\ result = <<>>
  /\ finished = 0
  /\ outcome = [state |-> "pending", error |-> <<>>]
  /\ retval = <<>>
  /\ inflight = {}
  /\ taskResult = [i \in 0..(options.count - 1) |-> "none"]
  /\ scBy = <<>>
  /\ settled = <<>>

InitPool == \E o \in [count : 0..MaxCount, limit : 0..MaxLimit] : InitPoolWith(o)

\* A pool that is given nothing to do: the TaskPool part of the state while
\* another component is examined.
IdlePool == InitPoolWith([count |-> 0, limit |-> 0])

\* run() / latest() up to `await new Promise(...)`: the tracker is created and
\* the for loop starts the lanes.
Invoke(m) ==
  /\ callPc = "constructed"
  /\ LET s == StartLanes(NewTracker(options.count), LaneCount(options.limit))
     IN /\ tracker' = s.tracker
        /\ lanes' = s.lanes
        /\ inflight' = s.started
  /\ method' = m
  /\ callPc' = "running"
  /\ UNCHANGED <<options, results, result, finished, outcome, retval,
                 taskResult, scBy, settled>>
  /\ UNCHANGED <<muxVars, histVars, runVars, corrVars>>

run == Invoke("run")

latest == Invoke("latest")

\* store(value, index) as run() and latest() pass it to runInner.
StoreResults(m, stored, index) == IF m = "run" THEN stored \cup {index} ELSE stored

StoreResult(m, cur, index) == IF m = "latest" THEN <<ValueOf(index)>> ELSE cur

\* The promise of task lanes[l].index settles with a result of type r, and
\* runInner continues after its await: discard, store, throw or flag, then
\* the recursive call claims the next index.
TaskSettles(l, r) ==
  /\ lanes[l].pc = "awaitTask"
  /\ LET index == lanes[l].index
         stores == ~DiscardResult(tracker) /\ r \in {"complete", "short-circuit"}
         flagged == IF ~DiscardResult(tracker) /\ r = "short-circuit"
                      THEN RaiseShortCircuit(tracker) ELSE tracker
         next == EnterRunInner(flagged)
         recurse == ~DiscardResult(tracker) /\ r \in {"complete", "ignore"}
     IN /\ taskResult' = [taskResult EXCEPT ![index] = r]
        /\ settled' = Append(settled, index)
        /\ results' = IF stores THEN StoreResults(method, results, index) ELSE results
        /\ result' = IF stores THEN StoreResult(method, result, index) ELSE result
        /\ scBy' = IF ~DiscardResult(tracker) /\ r = "short-circuit"
                     THEN <<index>> ELSE scBy
        /\ tracker' = IF recurse THEN next.tracker ELSE flagged
        /\ lanes' = [lanes EXCEPT ![l] =
              IF DiscardResult(tracker) THEN LaneResolved
              ELSE IF r = "error" THEN LaneRejected(index)
              ELSE IF r = "short-circuit" THEN LaneResolved
              ELSE next.lane]
        /\ inflight' = (inflight \ {index}) \cup (IF recurse THEN next.started ELSE {})
  /\ UNCHANGED <<options, method, callPc, finished, outcome, retval>>
  /\ UNCHANGED <<muxVars, histVars, runVars, corrVars>>

\* resolve() / reject(e) of the executor's promise: the first call settles it.
Resolve(o) == IF o.state = "pending" THEN [state |-> "resolved", error |-> <<>>] ELSE o

Reject(o, e) == IF o.state = "pending" THEN [state |-> "rejected", error |-> <<e>>] ELSE o

\* The .then callback of lane l.
ThenCallback(l) ==
  /\ lanes[l].pc = "resolved"
  /\ finished' = finished + 1
  /\ outcome' = IF tracker.shortCircuit \/ finished + 1 = options.limit
                  THEN Resolve(outcome) ELSE outcome
  /\ lanes' = [lanes EXCEPT ![l] = LaneDone]
  /\ UNCHANGED <<options, method, callPc, tracker, results, result, retval,
                 inflight, taskResult, scBy, settled>>
  /\ UNCHANGED <<muxVars, histVars, runVars, corrVars>>

\* The .catch(reject) callback of lane l.
CatchCallback(l) ==
  /\ lanes[l].pc = "rejected"
  /\ outcome' = Reject(outcome, lanes[l].index)
  /\ lanes' = [lanes EXCEPT ![l] = LaneDone]
  /\ UNCHANGED <<options, method, callPc, tracker, results, result, finished,
                 retval, inflight, taskResult, scBy, settled>>
  /\ UNCHANGED <<muxVars, histVars, runVars, corrVars>>

\* run()/latest() after its await: return the collected value(s).
Return ==
  /\ callPc = "running"
  /\ outcome.state = "resolved"
  /\ callPc' = "returned"
  /\ retval' = IF method = "run" THEN Filtered(results, 0, options.count) ELSE result
  /\ UNCHANGED <<options, method, tracker, lanes, results, result, finished,
                 outcome, inflight, taskResult, scBy, settled>>
  /\ UNCHANGED <<muxVars, histVars, runVars, corrVars>>

\* run()/latest() after its await, when the promise rejected: rethrow.
Throw ==
  /\ callPc = "running"
  /\ outcome.state = "rejected"
  /\ callPc' = "thrown"
  /\ retval' = outcome.error
  /\ UNCHANGED <<options, method, tracker, lanes, results, result, finished,
                 outcome, inflight, taskResult, scBy, settled>>
  /\ UNCHANGED <<muxVars, histVars, runVars, corrVars>>

(***************************************************************************)
(* SchedulerMultiplexor                                                    *)
(***************************************************************************)

\* The multiplexorConfig of the ID-card reader, in the order Object.keys
\* lists it.  Its third variant, "fast" (count 1, set up like "number"), is
\* left out: the variants share no state.
KeyOrder == <<"number", "default">>

\* config.count of the "number" and of the "default" variant.
NumberCount == 1
DefaultCount == 2

MultiplexorConfig ==
  [k \in {"number", "default"} |->
     [count |-> IF k = "number" THEN NumberCount ELSE DefaultCount, params |-> TRUE]]

Keys == {KeyOrder[n] : n \in DOMAIN KeyOrder}

\* A worker whose createWorker promise is pending.
NewWorker == [pc |-> "creating", terminated |-> FALSE]

\* getScheduler, the memo check.
Memoized(scheds, key) == scheds[key] # <<>>

\* getScheduler(key) up to its first suspension point. A hit returns the
\* memoized scheduler; a miss calls createScheduler() (scheduler `id` now
\* exists) and suspends at the await.  `late` records whether terminate()
\* had already resolved when the call was made.
GetSchedulerEnter(key, scheds, id, late) ==
  IF Memoized(scheds, key)
    THEN [key |-> key, pc |-> "returned", sched |-> scheds[key][1],
          created |-> FALSE, schedTerminated |-> FALSE, workers |-> <<>>,
          afterTerminate |-> late]
    ELSE [key |-> key, pc |-> "awaitCreate", sched |-> id,
          created |-> TRUE, schedTerminated |-> FALSE, workers |-> <<>>,
          afterTerminate |-> late]

\* The constructor's loop: getScheduler(key) for the first n keys, none of
\* them awaited, this.schedulers still empty.
RECURSIVE ConstructorCalls(_)
ConstructorCalls(n) ==
  IF n = 0 THEN <<>>
  ELSE Append(ConstructorCalls(n - 1),
              GetSchedulerEnter(KeyOrder[n], [k \in Keys |-> <<>>], n, FALSE))

\* new SchedulerMultiplexor(configs)
InitMux ==
  /\ configs = MultiplexorConfig
  /\ schedulers = [k \in Keys |-> <<>>]
  /\ calls = ConstructorCalls(Len(KeyOrder))
  /\ termPc = "none"

\* No multiplexor: the multiplexor part of the state while another component
\* is examined.
IdleMux ==
  /\ configs = <<>>
  /\ schedulers = <<>>
  /\ calls = <<>>
  /\ termPc = "none"

\* A caller calls getScheduler(key).
getScheduler(key) ==
  /\ Len(calls) < Len(KeyOrder) + MaxCalls
  /\ calls' = Append(calls, GetSchedulerEnter(key, schedulers, Len(calls) + 1, termPc = "resolved"))
  /\ UNCHANGED <<configs, schedulers, termPc>>
  /\ UNCHANGED <<poolVars, histVars, runVars, corrVars>>

\* `await createScheduler()` resumes in call c: the scheduler is memoized and
\* config.count createWorker calls are started.
SchedulerCreated(c) ==
  /\ calls[c].pc = "awaitCreate"
  /\ schedulers' = [schedulers EXCEPT ![calls[c].key] = <<calls[c].sched>>]
  /\ calls' = [calls EXCEPT ![c].pc = "awaitWorkers",
                            ![c].workers = [i \in 1..configs[calls[c].key].count |-> NewWorker]]
  /\ UNCHANGED <<configs, termPc>>
  /\ UNCHANGED <<poolVars, histVars, runVars, corrVars>>

\* `await createWorker(...)` resumes for worker i of call c: with params the
\* worker awaits setParameters, without it is added to the scheduler.
WorkerCreated(c, i) ==
  /\ calls[c].pc = "awaitWorkers"
  /\ calls[c].workers[i].pc = "creating"
  /\ calls' = [calls EXCEPT ![c].workers[i].pc =
                  IF configs[calls[c].key].params THEN "settingParams" ELSE "added"]
  /\ UNCHANGED <<configs, schedulers, termPc>>
  /\ UNCHANGED <<poolVars, histVars, runVars, corrVars>>

\* `await worker.setParameters(...)` resumes: scheduler.addWorker(worker).
ParametersSet(c, i) ==
  /\ calls[c].pc = "awaitWorkers"
  /\ calls[c].workers[i].pc = "settingParams"
  /\ calls' = [calls EXCEPT ![c].workers[i].pc = "added"]
  /\ UNCHANGED <<configs, schedulers, termPc>>
  /\ UNCHANGED <<poolVars, histVars, runVars, corrVars>>

\* Promise.all over the workers resolves: call c returns its scheduler.
SchedulerReturned(c) ==
  /\ calls[c].pc = "awaitWorkers"
  /\ \A i \in DOMAIN calls[c].workers : calls[c].workers[i].pc = "added"
  /\ calls' = [calls EXCEPT ![c].pc = "returned"]
  /\ UNCHANGED <<configs, schedulers, termPc>>
  /\ UNCHANGED <<poolVars, histVars, runVars, corrVars>>

\* scheduler.terminate() on the scheduler call c created: the workers the
\* scheduler holds at that moment are terminated.
TerminateScheduler(call) ==
  [call EXCEPT !.schedTerminated = TRUE,
               !.workers = [i \in DOMAIN call.workers |->
                   IF call.workers[i].pc = "added"
                     THEN [call.workers[i] EXCEPT !.terminated = TRUE]
                     ELSE call.workers[i]]]

\* terminate() up to its await: scheduler.terminate() for every scheduler
\* that this.schedulers holds.
terminate ==
  /\ termPc = "none"
  /\ calls' = [c \in DOMAIN calls |->
        IF calls[c].created /\ schedulers[calls[c].key] = <<calls[c].sched>>
          THEN TerminateScheduler(calls[c]) ELSE calls[c]]
  /\ termPc' = "awaiting"
  /\ UNCHANGED <<configs, schedulers>>
  /\ UNCHANGED <<poolVars, histVars, runVars, corrVars>>

\* The Promise.all of terminate() resolves.
TerminateResolved ==
  /\ termPc = "awaiting"
  /\ termPc' = "resolved"
  /\ UNCHANGED <<configs, schedulers, calls>>
  /\ UNCHANGED <<poolVars, histVars, runVars, corrVars>>

(***************************************************************************)
(* OCR history                                                             *)
(***************************************************************************)

\* PassportOCRTargets, the two entries that differ in their history flag:
\* both have a corrector function, only sex declares hasHistory.
targets ==
  [passportNumber |-> [corrector |-> TRUE, hasHistory |-> FALSE],
   sex            |-> [corrector |-> TRUE, hasHistory |-> TRUE]]

TargetKeys == DOMAIN targets

\* The confirmed strings a payload or a supplied history may hold.
Words == {"A", "B", "C"}

\* A payload entry: <<>> is null, <<w>> the string w (which may be empty).
PayloadValues == {<<>>, <<"">>} \cup {<<w>> : w \in Words}

\* All lists over S of length at most n.
RECURSIVE ListsUpTo(_, _)
ListsUpTo(S, n) ==
  IF n = 0 THEN {<<>>}
  ELSE LET shorter == ListsUpTo(S, n - 1)
       IN shorter \cup {Append(l, w) : l \in {x \in shorter : Len(x) = n - 1}, w \in S}

\* this.options.history[key]: absent, or a list.
Undefined == [defined |-> FALSE, list |-> <<>>]
Defined(l) == [defined |-> TRUE, list |-> l]

\* history.find(word => word === value), used as a truth value.
Found(list, value) == \E n \in DOMAIN list : list[n] = value /\ list[n] # ""

\* history.shift()
Shift_Pop(list) == SubSeq(list, 1, Len(list) - 1)

Shift(list) == Tail(list)

\* The test that decides whether the list is cut after a push.
OverLimit_AtLimit(list, limit) == Len(list) >= limit

OverLimit(list, limit) == Len(list) > limit

\* One iteration of updateHistory's loop, for the target `target`, its
\* history entry h and its payload value.
UpdateEntry(target, h, value, limit) ==
  IF ~target.corrector THEN h
  ELSE IF value = <<>> \/ value = <<"">> THEN h
  ELSE LET list == IF h.defined THEN h.list ELSE <<>>
           pushed == Append(list, value[1])
       IN IF Found(list, value[1]) THEN Defined(list)
          ELSE IF OverLimit(pushed, limit) THEN Defined(Shift(pushed))
          ELSE Defined(pushed)

\* new OCR(options): the history is the caller's (any lists, or none for a
\* key) or the empty object, the limit is the caller's or the default.
InitHist ==
  /\ historyLimit \in 0..MaxHistoryLimit
  /\ history \in [TargetKeys -> {Undefined} \cup {Defined(l) : l \in ListsUpTo(Words, MaxSupplied)}]
  /\ payload = [k \in TargetKeys |-> <<>>]
  /\ oldHistory = history

\* No OCR object: the history part of the state while another component is
\* examined.
IdleHist ==
  /\ historyLimit = 0
  /\ history = <<>>
  /\ payload = <<>>
  /\ oldHistory = <<>>

\* updateHistory(p)
updateHistory(p) ==
  /\ history' = [k \in TargetKeys |-> UpdateEntry(targets[k], history[k], p[k], historyLimit)]
  /\ payload' = p
  /\ oldHistory' = history
  /\ UNCHANGED historyLimit
  /\ UNCHANGED <<poolVars, muxVars, runVars, corrVars>>

(***************************************************************************)
(* PassportOCR.run and KTPCardOCR.run                                      *)
(***************************************************************************)

\* The confidences the engine reports (percent).
Confidences == {61, 74}

\* PassportOCRTargets, the entries run() compares with one another and one
\* date entry.  sex2 is the second location of the sex field.
PassportOCRTargets ==
  [passportNumber |-> [key |-> "passportNumber", isDate |-> FALSE],
   sex            |-> [key |-> "sex", isDate |-> FALSE],
   dateOfBirth    |-> [key |-> "dateOfBirth", isDate |-> TRUE],
   sex2           |-> [key |-> "sex", isDate |-> FALSE]]

PassportKeys == DOMAIN PassportOCRTargets

\* A confidence in thirds of a percent, so that the mean of three
\* confidences is a whole number.
Thirds(c) == 3 * c

\* OCRTargetReadResult | null
NoRead == [present |-> FALSE, text |-> "", confidence |-> 0]
Read(t, c) == [present |-> TRUE, text |-> t, confidence |-> c]

\* result.data.lines[0] of a recognition job, together with what processLine
\* makes of it: no line, or a line with its confidence and the corrected
\* text (<<>> when the corrector returns null).
NoLine == [present |-> FALSE, confidence |-> 0, text |-> <<>>]
Lines(t) ==
  {NoLine} \cup {[present |-> TRUE, confidence |-> c, text |-> x] :
                   c \in Confidences, x \in {<<>>, <<t>>}}

\* The text a read produces is named after the read it came from.
SplitTextOf(k) == IF k = "dateOfBirth" THEN "dateOfBirth (split)" ELSE k

\* The three jobs of readDateTarget: per part no line or a confidence;
\* `processed` tells whether processLine accepts the joined text.
DateParts ==
  [day : {0} \cup Confidences, month : {0} \cup Confidences,
   year : {0} \cup Confidences, processed : BOOLEAN]

\* readTarget calls readDateTarget for a date target only.
PartsOf(k) ==
  IF PassportOCRTargets[k].isDate THEN DateParts
  ELSE {[day |-> 0, month |-> 0, year |-> 0, processed |-> FALSE]}

\* readDateTarget
readDateTarget(k, parts) ==
  IF parts.day # 0 /\ parts.month # 0 /\ parts.year # 0 /\ parts.processed
    THEN Read(SplitTextOf(k), parts.day + parts.month + parts.year)
    ELSE NoRead

\* The comparisons of a primary read with its alternate.
AltWinsDate(alt, line) == alt.confidence > Thirds(line.confidence)
AltWinsSex_Reversed(primary, alt) == primary.confidence > alt.confidence

AltWinsSex(primary, alt) == primary.confidence < alt.confidence
AltWinsPassportNumber(primary, alt) == primary.confidence <= alt.confidence

\* readTarget after its await: `line` is the first line of the primary job,
\* alt the result of readDateTarget (null for a target that is no date).
\* The comparison reads line.confidence as soon as alt is not null, which
\* throws a TypeError when there is no line.
readTarget(k, line, alt) ==
  IF alt.present /\ ~line.present
    THEN [threw |-> TRUE, value |-> NoRead]
  ELSE IF alt.present /\ AltWinsDate(alt, line)
    THEN [threw |-> FALSE, value |-> alt]
  ELSE IF line.present /\ line.text # <<>>
    THEN [threw |-> FALSE, value |-> Read(line.text[1], Thirds(line.confidence))]
  ELSE [threw |-> FALSE, value |-> NoRead]

\* The keys run() deletes from `result` before it builds the payload.
Deleted == {"sex2", "passportNumber2"}

\* run() after Promise.all: the two comparisons, the deletes, and the
\* payload of texts.
PassportPayload(res) ==
  LET pn == IF (~res.passportNumber.present /\ res.passportNumber2.present)
               \/ (res.passportNumber.present /\ res.passportNumber2.present
                     /\ AltWinsPassportNumber(res.passportNumber, res.passportNumber2))
              THEN res.passportNumber2 ELSE res.passportNumber
      sx == IF (~res.sex.present /\ res.sex2.present)
               \/ (res.sex.present /\ res.sex2.present /\ AltWinsSex(res.sex, res.sex2))
              THEN res.sex2 ELSE res.sex
      merged == [res EXCEPT !.passportNumber = pn, !.sex = sx]
  IN [k \in (DOMAIN res) \ Deleted |->
        IF merged[k].present THEN <<merged[k].text>> ELSE <<>>]

\* What run() ended with.
NotReturned == [kind |-> "none", payload |-> <<>>, error |-> ""]
Resolved(p) == [kind |-> "payload", payload |-> p, error |-> ""]
Rejected(e) == [kind |-> "error", payload |-> <<>>, error |-> e]

\* Whether a locator stage goes on after its search.
AnchorFound_Always(found) == TRUE

AnchorFound(found) == found

\* A reader that was constructed and given an input; run() not yet called.
InitRun ==
  /\ doc \in {"passport", "ktp"}
  /\ runPc = "idle"
  /\ reads = <<>>
  /\ pending = {}
  /\ readResult = <<>>
  /\ jobs = <<>>
  /\ anchors = <<>>
  /\ canvas = "raw"
  /\ runReturn = NotReturned

\* No reader: the run part of the state while another component is examined.
IdleRun ==
  /\ doc = "none"
  /\ runPc = "idle"
  /\ reads = <<>>
  /\ pending = {}
  /\ readResult = <<>>
  /\ jobs = <<>>
  /\ anchors = <<>>
  /\ canvas = "raw"
  /\ runReturn = NotReturned

\* getPassportNumberAlternative after its job: the last line of the bottom
\* strip, or null when there is none or the corrector rejects it.
getPassportNumberAlternative(line) ==
  IF line.present /\ line.text # <<>>
    THEN Read(line.text[1], Thirds(line.confidence)) ELSE NoRead

\* PassportOCR.run(): up to the top-anchor search of locateViewAreaTop, whose
\* task pool submits the section jobs.
PassportRun ==
  /\ doc = "passport"
  /\ runPc = "idle"
  /\ runPc' = "locateTop"
  /\ jobs' = Append(jobs, "top")
  /\ UNCHANGED <<doc, reads, pending, readResult, anchors, canvas, runReturn>>
  /\ UNCHANGED <<poolVars, muxVars, histVars, corrVars>>

\* pool.latest() resolves in locateViewAreaTop: without an anchor the error
\* is thrown, with one locateViewArea crops the canvas to the anchor and
\* locateViewAreaBottom submits its job.
PassportLocateTopSettles(found) ==
  /\ doc = "passport"
  /\ runPc = "locateTop"
  /\ anchors' = Append(anchors, found)
  /\ IF AnchorFound(found)
       THEN /\ runPc' = "locateBottom"
            /\ canvas' = "croppedToTop"
            /\ jobs' = Append(jobs, "bottom")
            /\ UNCHANGED runReturn
       ELSE /\ runPc' = "rejected"
            /\ runReturn' = Rejected("Cannot find top-left end of passport")
            /\ UNCHANGED <<jobs, canvas>>
  /\ UNCHANGED <<doc, reads, pending, readResult>>
  /\ UNCHANGED <<poolVars, muxVars, histVars, corrVars>>

\* The job of locateViewAreaBottom resolves: without a line of more than 8
\* digits the error is thrown; otherwise locateViewArea cuts the canvas to
\* the bottom-right point, and run() goes on and starts readTarget
\* for every target, and the bottom-strip read of the passport number.
PassportLocateBottomSettles(found) ==
  /\ doc = "passport"
  /\ runPc = "locateBottom"
  /\ anchors' = Append(anchors, found)
  /\ IF AnchorFound(found)
       THEN /\ runPc' = "reading"
            /\ canvas' = "canonical"
            /\ jobs' = Append(jobs, "fields")
            /\ pending' = PassportKeys \cup {"passportNumber2"}
            /\ UNCHANGED runReturn
       ELSE /\ runPc' = "rejected"
            /\ runReturn' = Rejected("Cannot find bottom-right end of passport")
            /\ UNCHANGED <<jobs, pending, canvas>>
  /\ UNCHANGED <<doc, reads, readResult>>
  /\ UNCHANGED <<poolVars, muxVars, histVars, corrVars>>

\* `reads` / `result` with the entry for key k added.
With(f, k, v) == [x \in (DOMAIN f) \cup {k} |-> IF x = k THEN v ELSE f[x]]

\* The jobs of readTarget(k) resolve.  A TypeError rejects Promise.all and
\* with it run().
ReadTargetSettles(k, line, parts) ==
  /\ doc = "passport"
  /\ runPc = "reading"
  /\ k \in pending \cap PassportKeys
  /\ LET alt == IF PassportOCRTargets[k].isDate THEN readDateTarget(k, parts) ELSE NoRead
         r == readTarget(k, line, alt)
     IN /\ reads' = With(reads, k, [line |-> line, alt |-> alt])
        /\ pending' = pending \ {k}
        /\ IF r.threw
             THEN /\ runPc' = "rejected"
                  /\ runReturn' = Rejected("TypeError")
                  /\ UNCHANGED readResult
             ELSE /\ readResult' = With(readResult, k, r.value)
                  /\ UNCHANGED <<runPc, runReturn>>
  /\ UNCHANGED <<doc, jobs, anchors, canvas>>
  /\ UNCHANGED <<poolVars, muxVars, histVars, corrVars>>

\* getPassportNumberAlt() resolves.
PassportNumberAltSettles(line) ==
  /\ doc = "passport"
  /\ runPc = "reading"
  /\ "passportNumber2" \in pending
  /\ reads' = With(reads, "passportNumber2", [line |-> line, alt |-> NoRead])
  /\ readResult' = With(readResult, "passportNumber2", getPassportNumberAlternative(line))
  /\ pending' = pending \ {"passportNumber2"}
  /\ UNCHANGED <<doc, runPc, jobs, anchors, canvas, runReturn>>
  /\ UNCHANGED <<poolVars, muxVars, histVars, corrVars>>

\* Promise.all resolves: run() compares, deletes and returns the payload.
PassportReturn ==
  /\ doc = "passport"
  /\ runPc = "reading"
  /\ pending = {}
  /\ runPc' = "returned"
  /\ runReturn' = Resolved(PassportPayload(readResult))
  /\ UNCHANGED <<doc, reads, pending, readResult, jobs, anchors, canvas>>
  /\ UNCHANGED <<poolVars, muxVars, histVars, corrVars>>

\* What the engine gives KTPCardOCR.run(): the number of lines of the view,
\* whether line 1 holds a place of birth, whether the date of birth is on
\* line 1 or on line 2, whether line 2 (after the splice) holds the sex row,
\* and whether the top section holds a NIK line.
KTPInputs ==
  [lines : 0..MaxLines, placeOfBirth : BOOLEAN, dateInLine1 : BOOLEAN,
   dateInLine2 : BOOLEAN, sexRow : BOOLEAN, nik : BOOLEAN]

\* The keys of KTPCardOCRTargets that the model follows, and the line index
\* of those that are read by position.
KTPKeys == {"NIK", "name", "placeOfBirth", "sex", "address"}

KTPIndex == [name |-> 0, address |-> 3]

\* KTPCardOCR.run() after Promise.all.  lines[1].text and lines[2].text are
\* read without a check, which throws a TypeError when the line is missing.
KTPPayload(in) ==
  LET readsLine2First == in.placeOfBirth /\ ~in.dateInLine1
      spliced == readsLine2First /\ in.lines >= 3 /\ in.dateInLine2
      n == IF spliced THEN in.lines - 1 ELSE in.lines
      threw == \/ in.lines < 2
               \/ (readsLine2First /\ in.lines < 3)
               \/ n < 3
  IN [threw |-> threw,
      payload |->
        [k \in KTPKeys |->
           IF k = "NIK" THEN (IF in.nik THEN <<k>> ELSE <<>>)
           ELSE IF k = "placeOfBirth" THEN (IF in.placeOfBirth THEN <<k>> ELSE <<>>)
           ELSE IF k = "sex" THEN (IF in.sexRow THEN <<k>> ELSE <<>>)
           ELSE (IF KTPIndex[k] < n THEN <<k>> ELSE <<>>)]]

\* KTPCardOCR.run(): up to the job of locateViewAreaTop.
KTPRun ==
  /\ doc = "ktp"
  /\ runPc = "idle"
  /\ runPc' = "locateTop"
  /\ jobs' = Append(jobs, "top")
  /\ UNCHANGED <<doc, reads, pending, readResult, anchors, canvas, runReturn>>
  /\ UNCHANGED <<poolVars, muxVars, histVars, corrVars>>

\* The job of locateViewAreaTop resolves: without a NIK word the error is
\* thrown; otherwise the view is cropped and run() submits the job for the
\* view and the two jobs of recognizeKTPTopInformation.
KTPLocateTopSettles(found) ==
  /\ doc = "ktp"
  /\ runPc = "locateTop"
  /\ anchors' = Append(anchors, found)
  /\ IF AnchorFound(found)
       THEN /\ runPc' = "reading"
            /\ canvas' = "croppedToTop"
            /\ jobs' = Append(jobs, "fields")
            /\ pending' = {"view", "top"}
            /\ UNCHANGED runReturn
       ELSE /\ runPc' = "rejected"
            /\ runReturn' = Rejected("Cannot find top-left corner of KTP")
            /\ UNCHANGED <<jobs, pending, canvas>>
  /\ UNCHANGED <<doc, reads, readResult>>
  /\ UNCHANGED <<poolVars, muxVars, histVars, corrVars>>

\* Promise.all of run() resolves and run() builds the payload.
KTPReadsSettle(in) ==
  /\ doc = "ktp"
  /\ runPc = "reading"
  /\ reads' = in
  /\ pending' = {}
  /\ LET r == KTPPayload(in)
     IN IF r.threw
          THEN /\ runPc' = "rejected"
               /\ runReturn' = Rejected("TypeError")
          ELSE /\ runPc' = "returned"
               /\ runReturn' = Resolved(r.payload)
  /\ UNCHANGED <<doc, readResult, jobs, anchors, canvas>>
  /\ UNCHANGED <<poolVars, muxVars, histVars, corrVars>>

(***************************************************************************)
(* Locators                                                                *)
(***************************************************************************)

\* Array.prototype.slice(start, end) with start >= 0; a negative end counts
\* from the end of the array.  Indices are those of the code, from 0.
slice(arr, start, end) ==
  LET stop == IF end < 0 THEN (IF Len(arr) + end < 0 THEN 0 ELSE Len(arr) + end)
              ELSE IF end > Len(arr) THEN Len(arr) ELSE end
  IN SubSeq(arr, start + 1, stop)

\* Array.prototype.sort((a, b) => a - b)
RECURSIVE Insert(_, _)
Insert(sorted, x) ==
  IF sorted = <<>> \/ x < Head(sorted) THEN <<x>> \o sorted
  ELSE <<Head(sorted)>> \o Insert(Tail(sorted), x)

RECURSIVE SortNumbers(_)
SortNumbers(arr) ==
  IF arr = <<>> THEN <<>> ELSE Insert(SortNumbers(Tail(arr)), Head(arr))

\* median of a non-empty sorted array (the edges of the model are even
\* numbers, so the mean of two of them is a whole number).
median(arr) ==
  IF Len(arr) % 2 = 0
    THEN (arr[Len(arr) \div 2] + arr[Len(arr) \div 2 + 1]) \div 2
    ELSE arr[Len(arr) \div 2 + 1]

\* The scan of locateViewAreaBottom: the index, from 0, of the line that the
\* loop leaves in endOfPassport, or -1.
endOfPassport_First(lines) ==
  IF \A n \in DOMAIN lines : lines[n].numberCount <= 8 THEN -1
  ELSE (CHOOSE n \in DOMAIN lines :
          /\ lines[n].numberCount > 8
          /\ \A m \in 1..(n - 1) : lines[m].numberCount <= 8) - 1

endOfPassport(lines) ==
  IF \A n \in DOMAIN lines : lines[n].numberCount <= 8 THEN -1
  ELSE (CHOOSE n \in DOMAIN lines :
          /\ lines[n].numberCount > 8
          /\ \A m \in (n + 1)..Len(lines) : lines[m].numberCount <= 8) - 1

\* What a locator stage ends with: the values it returns, or the error it
\* throws.
Located(x, y, endY0, endY1) ==
  [kind |-> "located", x |-> x, y |-> y, endY0 |-> endY0, endY1 |-> endY1, error |-> ""]

Thrown(e) == [kind |-> "thrown", x |-> 0, y |-> 0, endY0 |-> 0, endY1 |-> 0, error |-> e]

\* locateViewAreaBottom of the passport after its recognition job.  With no
\* line in relevantLines, relevantLines[relevantLines.length - 1] is
\* undefined and reading its bbox throws a TypeError.
locateViewAreaBottom(lines) ==
  LET end == endOfPassport(lines)
      relevantLines == slice(lines, IF end - 7 > 0 THEN end - 7 ELSE 0, end - 1)
      last == slice(relevantLines,
                    IF Len(relevantLines) - 3 > 0 THEN Len(relevantLines) - 3 ELSE 0,
                    Len(relevantLines))
      rightEdges == SortNumbers([n \in DOMAIN last |-> last[n].x1])
  IN IF end = -1 THEN Thrown("Cannot find bottom-right end of passport")
     ELSE IF relevantLines = <<>> THEN Thrown("TypeError")
     ELSE Located(median(rightEdges), relevantLines[Len(relevantLines)].y1,
                  lines[end + 1].y0, lines[end + 1].y1)

\* locateViewAreaTop of the passport after pool.latest(): a section task
\* short-circuits with the title pair (REPUBLIK and INDONESIA on one line),
\* completes with the PASPOR word alone, or is ignored.  The stage takes the
\* title pair and its rotation when the value holds both title words, the
\* PASPOR word with no rotation otherwise, and throws without a value.
HasTitlePair(types, i) == types[i] = "short-circuit"

TopAnchor(value, types) ==
  IF value = <<>> THEN [anchor |-> "none", angle |-> "none"]
  ELSE IF HasTitlePair(types, value[1])
    THEN [anchor |-> "REPUBLIK INDONESIA", angle |-> "computed"]
    ELSE [anchor |-> "PASPOR", angle |-> "zero"]

\* The loop of the ID card's locateViewAreaTop over the lines from line n
\* on: nikWord is assigned anew on every line, provinsiWord only on a line
\* with the PROVINSI label, and the loop ends once both are set.  A word is
\* <<>> when undefined, <<n>> when it was found on line n.
RECURSIVE ScanTop(_, _, _, _)
ScanTop(lines, n, nikWord, provinsiWord) ==
  IF n > Len(lines) THEN [nikWord |-> nikWord, provinsiWord |-> provinsiWord]
  ELSE LET nik == IF lines[n].nik THEN <<n>> ELSE <<>>
           provinsi == IF lines[n].provinsi THEN <<n>> ELSE provinsiWord
       IN IF nik # <<>> /\ provinsi # <<>>
            THEN [nikWord |-> nik, provinsiWord |-> provinsi]
            ELSE ScanTop(lines, n + 1, nik, provinsi)

\* What the ID card's locateViewAreaTop ends with.
KTPLocated(nikWord, provinsiWord) ==
  [kind |-> "located", nikWord |-> nikWord, provinsiWord |-> provinsiWord, error |-> ""]

KTPThrown(e) == [kind |-> "thrown", nikWord |-> <<>>, provinsiWord |-> <<>>, error |-> e]

\* locateViewAreaTop of the ID card after its recognition job.
KTPLocateViewAreaTop(lines) ==
  LET found == ScanTop(lines, 1, <<>>, <<>>)
  IN IF found.nikWord = <<>> THEN KTPThrown("Cannot find top-left corner of KTP")
     ELSE KTPLocated(found.nikWord, found.provinsiWord)

(***************************************************************************)
(* Correctors                                                              *)
(* A string is a sequence of one-character strings.                        *)
(***************************************************************************)

UpperLetters ==
  <<"A", "B", "C", "D", "E", "F", "G", "H", "I", "J", "K", "L", "M",
    "N", "O", "P", "Q", "R", "S", "T", "U", "V", "W", "X", "Y", "Z">>

LowerLetters ==
  <<"a", "b", "c", "d", "e", "f", "g", "h", "i", "j", "k", "l", "m",
    "n", "o", "p", "q", "r", "s", "t", "u", "v", "w", "x", "y", "z">>

DigitChars == <<"0", "1", "2", "3", "4", "5", "6", "7", "8", "9">>

\* The members of a sequence.
Members(seq) == {seq[n] : n \in DOMAIN seq}

\* [0-9] and \d
IsDigit(c) == c \in Members(DigitChars)

\* \w
IsWord(c) == c \in Members(DigitChars) \cup Members(UpperLetters) \cup Members(LowerLetters) \cup {"_"}

\* \s
IsSpace(c) == c \in {" ", "\t"}

\* `65 <= ascii && ascii <= 65 + 26`: the letters A..Z and the character
\* after Z, which is "[".
IsUppercaseAlpha(c) == c \in Members(UpperLetters) \cup {"["}

\* String.prototype.toUpperCase
ToUpperChar(c) ==
  IF \E n \in DOMAIN LowerLetters : LowerLetters[n] = c
    THEN UpperLetters[CHOOSE n \in DOMAIN LowerLetters : LowerLetters[n] = c]
    ELSE c

toUpperCase(str) == [n \in DOMAIN str |-> ToUpperChar(str[n])]

\* Array.prototype.filter on the characters of a string.
RECURSIVE Filter(_, _)
Filter(str, keep) ==
  IF str = <<>> THEN <<>>
  ELSE (IF Head(str) \in keep THEN <<Head(str)>> ELSE <<>>) \o Filter(Tail(str), keep)

\* String.prototype.trim
RECURSIVE TrimStart(_)
TrimStart(str) ==
  IF str # <<>> /\ IsSpace(Head(str)) THEN TrimStart(Tail(str)) ELSE str

RECURSIVE TrimEnd(_)
TrimEnd(str) ==
  IF str # <<>> /\ IsSpace(str[Len(str)]) THEN TrimEnd(SubSeq(str, 1, Len(str) - 1)) ELSE str

trim(str) == TrimEnd(TrimStart(str))

\* str.split(/\s+/).join(sep): every run of whitespace becomes sep.
RECURSIVE SplitJoin(_, _)
SplitJoin(str, sep) ==
  IF str = <<>> THEN <<>>
  ELSE IF IsSpace(Head(str))
    THEN sep \o SplitJoin(TrimStart(str), sep)
    ELSE <<Head(str)>> \o SplitJoin(Tail(str), sep)

\* trimWhitespace
trimWhitespace(value) == SplitJoin(trim(value), <<" ">>)

\* String.prototype.substring(0, n)
substring(str, n) == SubSeq(str, 1, IF n < Len(str) THEN n ELSE Len(str))

Min(a, b) == IF a < b THEN a ELSE b

\* One row of the edit-distance table: the distances of a[1..i] to the
\* prefix of b that ends with the character c, from the row `prev` of the
\* prefix without c.
RECURSIVE LevRow(_, _, _, _)
LevRow(prev, a, c, row) ==
  IF Len(row) = Len(a) + 1 THEN row
  ELSE LET i == Len(row)
           cost == IF a[i] = c THEN 0 ELSE 1
           cell == Min(Min(prev[i + 1] + 1, row[i] + 1), prev[i] + cost)
       IN LevRow(prev, a, c, Append(row, cell))

RECURSIVE LevRows(_, _, _)
LevRows(prev, a, b) ==
  IF b = <<>> THEN prev
  ELSE LevRows(LevRow(prev, a, Head(b), <<prev[1] + 1>>), a, Tail(b))

\* distance(a, b) of fastest-levenshtein: the Levenshtein distance.
distance(a, b) == LevRows([n \in 1..(Len(a) + 1) |-> n - 1], a, b)[Len(a) + 1]

closest_FirstEntry(str, arr) == arr[1]

\* closest(str, arr) of fastest-levenshtein: the first entry of arr with the
\* least distance to str (arr is not empty).
closest(str, arr) ==
  LET dists == [n \in DOMAIN arr |-> distance(str, arr[n])]
      first == CHOOSE n \in DOMAIN arr :
                 /\ \A m \in DOMAIN arr : dists[n] <= dists[m]
                 /\ \A m \in 1..(n - 1) : dists[m] # dists[n]
  IN arr[first]

\* A corrector's result: null, or a string.
Null == [isNull |-> TRUE, text |-> <<>>]
Str(t) == [isNull |-> FALSE, text |-> t]

\* parseInt of a string of digits, and the decimal notation of a number.
DigitValue(c) == (CHOOSE n \in DOMAIN DigitChars : DigitChars[n] = c) - 1

RECURSIVE parseInt(_)
parseInt(digits) ==
  IF digits = <<>> THEN 0
  ELSE 10 * parseInt(SubSeq(digits, 1, Len(digits) - 1)) + DigitValue(digits[Len(digits)])

RECURSIVE toString(_)
toString(num) ==
  IF num < 10 THEN <<DigitChars[num + 1]>>
  ELSE toString(num \div 10) \o <<DigitChars[(num % 10) + 1]>>

\* pad0
pad0(num) == IF num < 10 THEN <<"0">> \o toString(num) ELSE toString(num)

MONTHS ==
  << <<"J", "A", "N">>, <<"F", "E", "B">>, <<"M", "A", "R">>, <<"A", "P", "R">>,
     <<"M", "A", "Y">>, <<"J", "U", "N">>, <<"J", "U", "L">>, <<"A", "U", "G">>,
     <<"S", "E", "P">>, <<"O", "C", "T">>, <<"N", "O", "V">>, <<"D", "E", "C">> >>

\* Whether every character of str[from..to] satisfies the class test.
AllDigits(str, from, to) == to <= Len(str) /\ \A n \in from..to : IsDigit(str[n])
AllWord(str, from, to) == to <= Len(str) /\ \A n \in from..to : IsWord(str[n])

\* /([0-9]{1,2})([\d\w]{3})([0-9]{4})/ tried at position p with a day of d
\* digits.
PassportDateAt(str, p, d) ==
  /\ AllDigits(str, p, p + d - 1)
  /\ AllWord(str, p + d, p + d + 2)
  /\ AllDigits(str, p + d + 3, p + d + 6)

\* value.match(...) of correctPassportDate: the leftmost position that
\* matches, the day taking two digits if that matches and one otherwise.
PassportDateMatch(str) ==
  IF \E p \in DOMAIN str : PassportDateAt(str, p, 2) \/ PassportDateAt(str, p, 1)
    THEN LET p == CHOOSE q \in DOMAIN str :
                    /\ PassportDateAt(str, q, 2) \/ PassportDateAt(str, q, 1)
                    /\ \A r \in 1..(q - 1) :
                         ~(PassportDateAt(str, r, 2) \/ PassportDateAt(str, r, 1))
             d == IF PassportDateAt(str, p, 2) THEN 2 ELSE 1
         IN [found |-> TRUE,
             day |-> SubSeq(str, p, p + d - 1),
             month |-> SubSeq(str, p + d, p + d + 2),
             year |-> SubSeq(str, p + d + 3, p + d + 6)]
    ELSE [found |-> FALSE, day |-> <<>>, month |-> <<>>, year |-> <<>>]

\* correctPassportDate
correctPassportDate(value) ==
  LET match == PassportDateMatch(SplitJoin(value, <<>>))
      day == parseInt(match.day)
      rawMonth == toUpperCase(match.month)
      year == parseInt(match.year)
      closestMonth == closest(rawMonth, MONTHS)
  IN IF ~match.found THEN Null
     ELSE IF distance(rawMonth, closestMonth) > 2 THEN Null
     ELSE IF day < 1 \/ day > 31 \/ year < 1900 \/ year > 2200 THEN Null
     ELSE Str(pad0(day) \o <<" ">> \o closestMonth \o <<" ">> \o toString(year))

\* [^a-zA-Z0-9]*: the first position from p on that holds a letter or a
\* digit (or the position after the end).
IsAlnum(c) == IsWord(c) /\ c # "_"

RECURSIVE SkipSeparators(_, _)
SkipSeparators(str, p) ==
  IF p <= Len(str) /\ ~IsAlnum(str[p]) THEN SkipSeparators(str, p + 1) ELSE p

\* KTP_DATE_REGEX tried at position p.
KTPDateAt(str, p) ==
  LET m == SkipSeparators(str, p + 2)
      y == SkipSeparators(str, m + 2)
  IN /\ AllDigits(str, p, p + 1)
     /\ AllDigits(str, m, m + 1)
     /\ AllDigits(str, y, y + 3)

\* correctDate of the ID card
correctDate(date) ==
  IF ~\E p \in DOMAIN date : KTPDateAt(date, p) THEN Null
  ELSE LET p == CHOOSE q \in DOMAIN date :
                  KTPDateAt(date, q) /\ \A r \in 1..(q - 1) : ~KTPDateAt(date, r)
           m == SkipSeparators(date, p + 2)
           y == SkipSeparators(date, m + 2)
           day == parseInt(SubSeq(date, p, p + 1))
           month == parseInt(SubSeq(date, m, m + 1))
           year == parseInt(SubSeq(date, y, y + 3))
       IN IF day < 1 \/ day > 31 \/ month < 1 \/ month > 12 \/ year < 1900 \/ year > 2200
            THEN Null
            ELSE Str(SubSeq(date, p, p + 1) \o <<"-">> \o SubSeq(date, m, m + 1)
                       \o <<"-">> \o SubSeq(date, y, y + 3))

\* Math.ceil(n / 3)
CeilThird(n) == (n + 2) \div 3

\* correctByHistory: null for an empty text; otherwise the text with its
\* whitespace normalised, replaced by the closest history entry when that
\* entry is near enough.
correctByHistory(text, hist) ==
  IF text = <<>> THEN Null
  ELSE LET trimmed == trimWhitespace(text)
       IN IF hist.defined /\ hist.list # <<>>
            THEN LET candidate == closest(trimmed, hist.list)
                 IN IF distance(trimmed, candidate) <= CeilThird(Len(candidate))
                      THEN Str(candidate)
                      ELSE Str(trimmed)
            ELSE Str(trimmed)

\* The corrector made by correctAlphabet(options), applied to a value and a
\* history.
correctAlphabet(opts, value, hist) ==
  LET keep == {c \in Members(toUpperCase(value)) :
                 IsUppercaseAlpha(c) \/ c \in Members(opts.whitelist)}
      text == trim(Filter(trimWhitespace(toUpperCase(value)), keep))
      cut == IF opts.hasMaxLength THEN substring(text, opts.maxLength) ELSE text
  IN IF Len(cut) = 0 THEN Null
     ELSE IF opts.withHistory THEN correctByHistory(cut, hist) ELSE Str(cut)

\* combineUnique: Array.from(new Set(a.concat(b))), the entries of a then b
\* in the order of their first occurrence.
RECURSIVE Unique(_, _)
Unique(list, seen) ==
  IF list = <<>> THEN seen
  ELSE Unique(Tail(list),
              IF Head(list) \in Members(seen) THEN seen ELSE Append(seen, Head(list)))

combineUnique(a, b) == Unique(a \o b, <<>>)

\* value.split(' ').join('')
RemoveSpaces(value) == Filter(value, Members(value) \ {" "})

\* candidates.find(x => x === corrected), used as a truth value: an empty
\* string that is found counts as not found.
FindCandidate_Any(candidates, corrected) == TRUE

FindCandidate(candidates, corrected) ==
  /\ ~corrected.isNull
  /\ corrected.text \in Members(candidates)
  /\ corrected.text # <<>>

\* The corrector made by correctEnums(possibleEnums, options), applied to a
\* value and a history.
correctEnums(possibleEnums, opts, value, hist) ==
  LET enums == [n \in DOMAIN possibleEnums |->
                  IF opts.spaceInsensitive
                    THEN SplitJoin(toUpperCase(possibleEnums[n]), <<>>)
                    ELSE toUpperCase(possibleEnums[n])]
      candidates == IF opts.history /\ hist.defined
                      THEN combineUnique(enums, hist.list)
                      ELSE enums
      upper == trimWhitespace(toUpperCase(value))
      text == IF opts.spaceInsensitive THEN RemoveSpaces(upper) ELSE upper
      corrected == correctByHistory(text, Defined(candidates))
  IN IF opts.exact /\ ~FindCandidate(candidates, corrected) THEN Null
     ELSE IF /\ opts.spaceInsensitive
             /\ ~corrected.isNull
             /\ \E n \in DOMAIN enums : enums[n] = corrected.text
       THEN Str(possibleEnums[CHOOSE n \in DOMAIN enums :
                                /\ enums[n] = corrected.text
                                /\ \A m \in 1..(n - 1) : enums[m] # corrected.text])
       ELSE corrected

\* The pattern /([A-Z])\/*([A-Z])/ of the passport's correctSex at position
\* p: a capital letter, any number of slashes, a capital letter.
RECURSIVE SkipSlashes(_, _)
SkipSlashes(str, p) ==
  IF p <= Len(str) /\ str[p] = "/" THEN SkipSlashes(str, p + 1) ELSE p

SexAt(str, p) ==
  /\ str[p] \in Members(UpperLetters)
  /\ SkipSlashes(str, p + 1) <= Len(str)
  /\ str[SkipSlashes(str, p + 1)] \in Members(UpperLetters)

\* correctSex of the passport
correctSex(value, hist) ==
  LET upper == toUpperCase(value)
  IN IF value = <<>> \/ ~\E p \in DOMAIN upper : SexAt(upper, p) THEN Null
     ELSE LET p == CHOOSE q \in DOMAIN upper :
                     SexAt(upper, q) /\ \A r \in 1..(q - 1) : ~SexAt(upper, r)
              sex == <<upper[p], "/", upper[SkipSlashes(upper, p + 1)]>>
              enums == combineUnique(<< <<"L", "/", "M">>, <<"P", "/", "F">> >>,
                                     IF hist.defined THEN hist.list ELSE <<>>)
              closestMatch == closest(sex, enums)
          IN IF distance(sex, closestMatch) <= 1 THEN Str(closestMatch) ELSE Str(sex)

\* No corrector call: the corrector part of the state while another
\* component is examined.
IdleCorr ==
  /\ fn = "none"
  /\ arg = <<>>
  /\ ret = <<>>

\* The date texts given to the date correctors: day, month token and year
\* joined by a separator.
DayTexts == {<<"1">>, <<"1", "5">>, <<"3", "1">>, <<"3", "2">>, <<"1", "3", "1">>}

YearTexts ==
  {<<"1", "8", "9", "9">>, <<"1", "9", "0", "0">>, <<"2", "0", "2", "4">>,
   <<"2", "2", "0", "0">>, <<"2", "2", "0", "1">>, <<"2", "0", "2", "4", "5">>,
   <<"2", "O", "2", "4">>}

MonthAlphabet == {"J", "A", "N", "U"}

MonthTokens ==
  {t \in ListsUpTo(MonthAlphabet, MaxTokenLen) : Len(t) >= 2}
    \cup {<<"F", "E", "B">>, <<"F", "e", "b">>, <<"F", "E">>, <<"F", "3", "B">>}

MonthNumbers == {<<"0", "1">>, <<"1", "2">>, <<"1", "3">>}

DateArgs ==
  [day : DayTexts, month : MonthTokens, year : YearTexts, sep : {<<" ">>}]
    \cup [day : DayTexts, month : MonthNumbers, year : YearTexts, sep : {<<"-">>}]

DateText(a) == a.day \o a.sep \o a.month \o a.sep \o a.year

\* A date text that has not been given to a corrector yet.
InitDate ==
  /\ fn = "none"
  /\ arg \in DateArgs
  /\ ret = <<>>

\* The passport reader's processLine calls correctPassportDate.
CallCorrectPassportDate ==
  /\ fn = "none"
  /\ fn' = "correctPassportDate"
  /\ ret' = <<correctPassportDate(DateText(arg))>>
  /\ UNCHANGED arg
  /\ UNCHANGED <<poolVars, muxVars, histVars, runVars>>

\* The ID-card reader's processLine calls correctDate.
CallCorrectDate ==
  /\ fn = "none"
  /\ fn' = "correctDate"
  /\ ret' = <<correctDate(DateText(arg))>>
  /\ UNCHANGED arg
  /\ UNCHANGED <<poolVars, muxVars, histVars, runVars>>

\* The texts given to the alphabet corrector: upper and lower case letters,
\* spaces and a character the filter removes, and texts with the characters
\* next to the letters in the character table.
AlphabetChars == {"A", "a", " ", "1"}

AlphabetTexts ==
  ListsUpTo(AlphabetChars, MaxTextLen) \cup {<<"[">>, <<"a", "[", "Z">>, <<"@", "{">>}

\* The options of correctAlphabet: the whitelists '' and ' ', maxLength
\* absent or 3 (the passport's country code), withHistory on or off.
AlphabetOptions ==
  [whitelist : {<<>>, <<" ">>},
   hasMaxLength : {TRUE},
   maxLength : {3},
   withHistory : BOOLEAN]
    \cup [whitelist : {<<>>, <<" ">>},
          hasMaxLength : {FALSE},
          maxLength : {0},
          withHistory : BOOLEAN]

\* The history a field's corrector is given: earlier results of the same
\* corrector.
AlphabetHistory == Defined(<< <<"A", "A">> >>)

AlphabetArgs ==
  [call : {"correctAlphabet"}, opts : AlphabetOptions, value : AlphabetTexts,
   hist : {AlphabetHistory}]

\* The texts and history entries given to correctByHistory and correctEnums.
EntryChars == {"A", "B", " "}

EntryTexts == ListsUpTo(EntryChars, MaxEntryLen)

Histories ==
  {Undefined, Defined(<<>>)}
    \cup {Defined(<<a>>) : a \in EntryTexts}
    \cup {Defined(<<a, b>>) : a \in EntryTexts, b \in EntryTexts}

HistoryArgs == [call : {"correctByHistory"}, value : EntryTexts, hist : Histories]

\* The candidate lists given to correctEnums: upper case as the ID card's
\* targets write them, one with a space, and one in lower case.
EnumLists ==
  {<< <<"A", "B">> >>,
   << <<"A", " ", "B">>, <<"B", "A">> >>,
   << <<"a", "b">> >>}

EnumOptions == [exact : BOOLEAN, history : BOOLEAN, spaceInsensitive : BOOLEAN]

EnumHistories ==
  {Undefined, Defined(<<>>)} \cup {Defined(<<a>>) : a \in EntryTexts}

EnumArgs ==
  [call : {"correctEnums"}, possibleEnums : EnumLists, opts : EnumOptions,
   value : EntryTexts \cup {<<"a", "b">>, <<"A", "B", "B">>}, hist : EnumHistories]

\* The corrector made by correctAlphabet is applied to the text.
CallCorrectAlphabet ==
  /\ fn = "none"
  /\ arg.call = "correctAlphabet"
  /\ fn' = "correctAlphabet"
  /\ ret' = <<correctAlphabet(arg.opts, arg.value, arg.hist)>>
  /\ UNCHANGED arg
  /\ UNCHANGED <<poolVars, muxVars, histVars, runVars>>

\* The same corrector is applied to the string it returned.
CallCorrectAlphabetAgain ==
  /\ fn = "correctAlphabet"
  /\ Len(ret) = 1
  /\ ~ret[1].isNull
  /\ ret' = Append(ret, correctAlphabet(arg.opts, ret[1].text, arg.hist))
  /\ UNCHANGED <<fn, arg>>
  /\ UNCHANGED <<poolVars, muxVars, histVars, runVars>>

\* correctByHistory is applied to the text and the history.
CallCorrectByHistory ==
  /\ fn = "none"
  /\ arg.call = "correctByHistory"
  /\ fn' = "correctByHistory"
  /\ ret' = <<correctByHistory(arg.value, arg.hist)>>
  /\ UNCHANGED arg
  /\ UNCHANGED <<poolVars, muxVars, histVars, runVars>>

\* The corrector made by correctEnums is applied to the text and the history.
CallCorrectEnums ==
  /\ fn = "none"
  /\ arg.call = "correctEnums"
  /\ fn' = "correctEnums"
  /\ ret' = <<correctEnums(arg.possibleEnums, arg.opts, arg.value, arg.hist)>>
  /\ UNCHANGED arg
  /\ UNCHANGED <<poolVars, muxVars, histVars, runVars>>

\* The texts of the passport's sex field and the histories of that field.
SexChars == {"L", "m", "/", " "}

SexTexts ==
  ListsUpTo(SexChars, MaxEntryLen)
    \cup {<<"P", " ", "/", " ", "F">>, <<"L", " ", "M">>, <<"P", "/", "F">>,
          <<"P", "F">>, <<"L", "/", "/", "M">>, <<"X", "/", "F">>, <<"1", "L", "M">>}

SexHistories ==
  {Undefined, Defined(<<>>), Defined(<< <<"L", "/", "M">> >>),
   Defined(<< <<"P", "/", "F">>, <<"L", "/", "F">> >>)}

SexArgs == [call : {"correctSex"}, value : SexTexts, hist : SexHistories]

\* A text that has not been given to its corrector yet.
InitText ==
  /\ fn = "none"
  /\ arg \in AlphabetArgs \cup HistoryArgs \cup EnumArgs \cup SexArgs
  /\ ret = <<>>

\* processLine gives the text of the sex field and the field's history to
\* correctSex.
CallCorrectSex ==
  /\ fn = "none"
  /\ arg.call = "correctSex"
  /\ fn' = "correctSex"
  /\ ret' = <<correctSex(arg.value, arg.hist)>>
  /\ UNCHANGED arg
  /\ UNCHANGED <<poolVars, muxVars, histVars, runVars>>

\* The lines the engine recognizes in the right half of the cropped passport:
\* per line the number of digits in its text and the right edge of its box;
\* line n of the page lies between y0 = 10 n and y1 = 10 n + 6.
LineShapes == [numberCount : {8, 9}, x1 : {2, 4}]

PageLines ==
  {[n \in DOMAIN l |-> [numberCount |-> l[n].numberCount, x1 |-> l[n].x1,
                         y0 |-> 10 * n, y1 |-> 10 * n + 6]] :
     l \in ListsUpTo(LineShapes, MaxLines)}

\* The lines the engine recognizes on the ID card: per line whether
\* getNIKBoundingBox finds the NIK anchor in it, and whether one of its words
\* is the PROVINSI label.
CardLines == ListsUpTo([nik : BOOLEAN, provinsi : BOOLEAN], MaxLines)

\* A page that has not been given to a locator stage yet.
InitLocate ==
  /\ fn = "none"
  /\ arg \in [call : {"locateViewAreaBottom"}, lines : PageLines]
             \cup [call : {"KTPLocateViewAreaTop"}, lines : CardLines]
  /\ ret = <<>>

\* The recognition job of locateViewAreaBottom resolves and the stage scans
\* the lines.
CallLocateViewAreaBottom ==
  /\ fn = "none"
  /\ arg.call = "locateViewAreaBottom"
  /\ fn' = "locateViewAreaBottom"
  /\ ret' = <<locateViewAreaBottom(arg.lines)>>
  /\ UNCHANGED arg
  /\ UNCHANGED <<poolVars, muxVars, histVars, runVars>>

\* The recognition job of the ID card's locateViewAreaTop resolves and the
\* stage scans the lines.
CallKTPLocateViewAreaTop ==
  /\ fn = "none"
  /\ arg.call = "KTPLocateViewAreaTop"
  /\ fn' = "KTPLocateViewAreaTop"
  /\ ret' = <<KTPLocateViewAreaTop(arg.lines)>>
  /\ UNCHANGED arg
  /\ UNCHANGED <<poolVars, muxVars, histVars, runVars>>

(***************************************************************************)
(* Specifications                                                          *)
(***************************************************************************)

InitPoolSpec == InitPool /\ IdleMux /\ IdleHist /\ IdleRun /\ IdleCorr

NextPool ==
  \/ run
  \/ latest
  \/ \E l \in DOMAIN lanes : \E r \in TaskResultStatus : TaskSettles(l, r)
  \/ \E l \in DOMAIN lanes : ThenCallback(l)
  \/ \E l \in DOMAIN lanes : CatchCallback(l)
  \/ Return
  \/ Throw

SpecPool == InitPoolSpec /\ [][NextPool]_vars

\* The pool when every task's promise eventually settles and the event loop
\* runs every callback and continuation that is ready.
LivePool ==
  /\ SpecPool
  /\ WF_vars(\E l \in DOMAIN lanes : \E r \in TaskResultStatus : TaskSettles(l, r))
  /\ WF_vars(\E l \in DOMAIN lanes : ThenCallback(l) \/ CatchCallback(l))
  /\ WF_vars(Return \/ Throw)

InitMuxSpec == IdlePool /\ InitMux /\ IdleHist /\ IdleRun /\ IdleCorr

NextMux ==
  \/ \E key \in Keys : getScheduler(key)
  \/ \E c \in DOMAIN calls : SchedulerCreated(c)
  \/ \E c \in DOMAIN calls : \E i \in DOMAIN calls[c].workers : WorkerCreated(c, i)
  \/ \E c \in DOMAIN calls : \E i \in DOMAIN calls[c].workers : ParametersSet(c, i)
  \/ \E c \in DOMAIN calls : SchedulerReturned(c)
  \/ terminate
  \/ TerminateResolved

SpecMux == InitMuxSpec /\ [][NextMux]_vars

InitHistSpec == IdlePool /\ IdleMux /\ InitHist /\ IdleRun /\ IdleCorr

NextHist == \E p \in [TargetKeys -> PayloadValues] : updateHistory(p)

SpecHist == InitHistSpec /\ [][NextHist]_vars

InitRunSpec == IdlePool /\ IdleMux /\ IdleHist /\ InitRun /\ IdleCorr

NextRun ==
  \/ PassportRun
  \/ \E found \in BOOLEAN : PassportLocateTopSettles(found)
  \/ \E found \in BOOLEAN : PassportLocateBottomSettles(found)
  \/ \E k \in PassportKeys : \E line \in Lines(k), parts \in PartsOf(k) :
       ReadTargetSettles(k, line, parts)
  \/ \E line \in Lines("passportNumber2") : PassportNumberAltSettles(line)
  \/ PassportReturn
  \/ KTPRun
  \/ \E found \in BOOLEAN : KTPLocateTopSettles(found)
  \/ \E in \in KTPInputs : KTPReadsSettle(in)

SpecRun == InitRunSpec /\ [][NextRun]_vars

InitDateSpec == IdlePool /\ IdleMux /\ IdleHist /\ IdleRun /\ InitDate

NextDate == CallCorrectPassportDate \/ CallCorrectDate

SpecDate == InitDateSpec /\ [][NextDate]_vars

InitTextSpec == IdlePool /\ IdleMux /\ IdleHist /\ IdleRun /\ InitText

NextText ==
  \/ CallCorrectAlphabet
  \/ CallCorrectAlphabetAgain
  \/ CallCorrectByHistory
  \/ CallCorrectEnums
  \/ CallCorrectSex

SpecText == InitTextSpec /\ [][NextText]_vars

InitLocateSpec == IdlePool /\ IdleMux /\ IdleHist /\ IdleRun /\ InitLocate

NextLocate ==
  \/ CallLocateViewAreaBottom
  \/ CallKTPLocateViewAreaTop

SpecLocate == InitLocateSpec /\ [][NextLocate]_vars

(***************************************************************************)
(* Claims about TaskPool, checked under SpecPool                           *)
(***************************************************************************)

\* Task a's promise settled before task b's.
SettledBefore(a, b) ==
  \E p, q \in DOMAIN settled : p < q /\ settled[p] = a /\ settled[q] = b

\* Some task's promise has settled with a ShortCircuit result.
SomeShortCircuit == \E i \in DOMAIN taskResult : taskResult[i] = "short-circuit"

\* C1: at every moment the number of tasks started and not yet settled is
\* at most the pool's limit.
C1_InFlightAtMostLimit == Cardinality(inflight) <= options.limit

\* C1 witness: a run with limit >= 2 in which every lane is busy after at
\* least one lane has already finished a task and claimed a further index.
C1_Witness ==
  /\ options.limit >= 2
  /\ Cardinality(inflight) = options.limit
  /\ Len(settled) >= 1
  /\ tracker.index > options.limit

\* C2: once a task has returned ShortCircuit no further index is claimed and
\* no new task is started (the in-flight set can only shrink).
C2_NoClaimAfterShortCircuit ==
  [][SomeShortCircuit => (tracker'.index = tracker.index /\ inflight' \subseteq inflight)]_vars

\* C2 witness: a short circuit left indices unclaimed, and a task that was
\* in flight at that moment finished afterwards.
C2_Witness ==
  /\ scBy # <<>>
  /\ tracker.index < tracker.target
  /\ \E i \in DOMAIN taskResult : taskResult[i] # "none" /\ SettledBefore(scBy[1], i)

C4_ErrorRejects ==
  \A i \in DOMAIN taskResult :
    taskResult[i] = "error" =>
      /\ callPc # "returned"
      /\ (callPc = "thrown" /\ Cardinality({j \in DOMAIN taskResult : taskResult[j] = "error"}) = 1)
            => retval = <<i>>

(***************************************************************************)
(* Claims about SchedulerMultiplexor, checked under SpecMux                *)
(***************************************************************************)

\* The calls for key k that created a scheduler of their own.
Creators(k) == {c \in DOMAIN calls : calls[c].key = k /\ calls[c].created}

\* The workers createWorker was called for on behalf of key k.
WorkersOf(k) ==
  {<<c, i>> : c \in Creators(k), i \in 1..DefaultCount} \cap
  {w \in (DOMAIN calls) \X (1..DefaultCount) : w[2] \in DOMAIN calls[w[1]].workers}

\* C5 (as claimed): for every key at most one scheduler and at most
\* config.count workers are ever created, and all calls that have resolved
\* hold the same scheduler.
C5_InitializedOnce ==
  \A k \in Keys :
    /\ Cardinality(Creators(k)) <= 1
    /\ Cardinality(WorkersOf(k)) <= configs[k].count
    /\ \A c, d \in DOMAIN calls :
         (calls[c].key = k /\ calls[d].key = k
            /\ calls[c].pc = "returned" /\ calls[d].pc = "returned")
         => calls[c].sched = calls[d].sched

\* C6 (as claimed): once terminate() has resolved, every scheduler that was
\* created is terminated, and each of its workers has been created, added
\* and terminated: none is still to be created or added.
C6_TerminateTearsDownAll ==
  termPc = "resolved" =>
    \A c \in DOMAIN calls :
      calls[c].created =>
        /\ calls[c].schedTerminated
        /\ calls[c].pc # "awaitCreate"
        /\ \A i \in DOMAIN calls[c].workers :
             calls[c].workers[i].pc = "added" /\ calls[c].workers[i].terminated

\* C7 (as claimed): a getScheduler call made after terminate() has resolved
\* raises an exception; it neither returns a scheduler nor starts a new one.
C7_UseAfterTerminateRaises ==
  \A c \in DOMAIN calls : calls[c].afterTerminate => calls[c].pc = "raised"

(***************************************************************************)
(* Claims about the history, checked under SpecHist                        *)
(***************************************************************************)

\* The list of a history entry (an absent entry reads as the empty list).
ListOf(h) == IF h.defined THEN h.list ELSE <<>>

\* The entries of a list as a set.
Range(list) == {list[n] : n \in DOMAIN list}

\* The last call gave field k a confirmed value that updateHistory looks at.
Confirmed(k) == targets[k].corrector /\ payload[k] # <<>> /\ payload[k] # <<"">>

\* C8 (as claimed): every field's history list has length at most
\* historyLimit, in every reachable state.
C8_HistoryWithinLimit ==
  \A k \in TargetKeys : Len(ListOf(history[k])) <= historyLimit

\* C9 (as claimed): a value already in the list leaves it unchanged;
\* otherwise the value is appended and, when the list then exceeds the
\* limit, the first entry is removed, after which that entry is absent, the
\* value is present and the other entries keep their order.
C9_AppendEvictAsClaimed ==
  \A k \in TargetKeys :
    Confirmed(k) =>
      LET old == ListOf(oldHistory[k])
          new == ListOf(history[k])
          v == payload[k][1]
          pushed == Append(old, v)
      IN IF v \in Range(old) THEN new = old
         ELSE IF Len(pushed) > historyLimit
           THEN /\ new = Tail(pushed)
                /\ pushed[1] \notin Range(new)
                /\ v \in Range(new)
           ELSE new = pushed

\* C9 (amended): as claimed, except that the appended value is itself the
\* entry removed when the list was empty (historyLimit = 0), and that the
\* removed entry stays present when the list held it more than once.
C9_AppendEvict ==
  \A k \in TargetKeys :
    Confirmed(k) =>
      LET old == ListOf(oldHistory[k])
          new == ListOf(history[k])
          v == payload[k][1]
      IN IF v \in Range(old) THEN new = old
         ELSE IF Len(old) + 1 > historyLimit
           THEN /\ Len(new) = Len(old)
                /\ \A n \in 1..(Len(old) - 1) : new[n] = old[n + 1]
                /\ old # <<>> => new[Len(new)] = v
                /\ (old # <<>> /\ \A n \in 2..Len(old) : old[n] # old[1])
                      => old[1] \notin Range(new)
           ELSE /\ Len(new) = Len(old) + 1
                /\ \A n \in 1..Len(old) : new[n] = old[n]
                /\ new[Len(new)] = v

\* C9 witness: a full list of two entries took a new value and lost its
\* first entry.
C9_Witness ==
  \E k \in TargetKeys :
    /\ Confirmed(k)
    /\ historyLimit = 2
    /\ Len(ListOf(oldHistory[k])) = 2
    /\ payload[k][1] \notin Range(ListOf(oldHistory[k]))
    /\ ListOf(history[k]) = <<oldHistory[k].list[2], payload[k][1]>>

\* C10 (as claimed): the last call changed a field's history only if the
\* field declares history participation and its payload value is not null.
C10_OnlyHistoryFieldsChange ==
  \A k \in TargetKeys :
    history[k] # oldHistory[k] => (targets[k].hasHistory /\ payload[k] # <<>>)

(***************************************************************************)
(* Claims about PassportOCR.run and KTPCardOCR.run, checked under SpecRun  *)
(***************************************************************************)

\* PassportOCR.run() has resolved with a payload.
PassportReturned == doc = "passport" /\ runPc = "returned"

\* C11: in the payload run() returns, sex is the text of the sex candidate
\* with the higher confidence, or of the only candidate present, and the
\* keys sex2 and passportNumber2 do not appear.
C11_SexIsBestCandidate ==
  PassportReturned =>
    LET a == readResult.sex
        b == readResult.sex2
        p == runReturn.payload
    IN /\ "sex2" \notin DOMAIN p
       /\ "passportNumber2" \notin DOMAIN p
       /\ (a.present /\ b.present /\ a.confidence > b.confidence) => p.sex = <<a.text>>
       /\ (a.present /\ b.present /\ b.confidence > a.confidence) => p.sex = <<b.text>>
       /\ (a.present /\ ~b.present) => p.sex = <<a.text>>
       /\ (b.present /\ ~a.present) => p.sex = <<b.text>>

\* C11 witness: the first location read sex at 61, the second at 74, and the
\* payload holds the second location's text.
C11_Witness ==
  /\ PassportReturned
  /\ readResult.sex = Read("sex", Thirds(61))
  /\ readResult.sex2 = Read("sex2", Thirds(74))
  /\ runReturn.payload.sex = <<"sex2">>

\* C12 (as claimed): in each of the three comparisons, when both reads are
\* present the payload holds the alternate read only if its confidence is
\* strictly greater than the primary's.
C12_AlternateOnlyOnStrictImprovement ==
  PassportReturned =>
    /\ LET line == reads.dateOfBirth.line
           alt == reads.dateOfBirth.alt
       IN (line.present /\ line.text # <<>> /\ alt.present
             /\ runReturn.payload.dateOfBirth = <<alt.text>>)
          => alt.confidence > Thirds(line.confidence)
    /\ (readResult.sex.present /\ readResult.sex2.present
          /\ runReturn.payload.sex = <<readResult.sex2.text>>)
       => readResult.sex2.confidence > readResult.sex.confidence
    /\ (readResult.passportNumber.present /\ readResult.passportNumber2.present
          /\ runReturn.payload.passportNumber = <<readResult.passportNumber2.text>>)
       => readResult.passportNumber2.confidence > readResult.passportNumber.confidence

\* C13 (as claimed): a read for which the engine returns no line, or an ID
\* card view with too few lines for a field's index, never makes run()
\* reject; the field's value is null in the payload run() resolves with.
C13_EmptyReadIsSoft ==
  /\ doc = "passport" =>
       \A k \in (DOMAIN reads) \cap PassportKeys :
         ~reads[k].line.present =>
           /\ runPc # "rejected"
           /\ (runPc = "returned" /\ k = "dateOfBirth" /\ ~reads[k].alt.present)
                => runReturn.payload[k] = <<>>
  /\ (doc = "ktp" /\ reads # <<>>) =>
       /\ runPc = "returned"
       /\ \A k \in DOMAIN KTPIndex :
            KTPIndex[k] >= reads.lines => runReturn.payload[k] = <<>>

\* The explicit errors of the locator stages.
CannotFind ==
  {"Cannot find top-left end of passport",
   "Cannot find bottom-right end of passport",
   "Cannot find top-left corner of KTP"}

\* C14: once a locator stage has finished without its anchor, run() is
\* rejected with the stage's "Cannot find ..." error, no job for the fields
\* has been submitted, and every stage has submitted its search once only.
C14_LocatorFailureIsFatal ==
  (\E n \in DOMAIN anchors : ~anchors[n]) =>
    /\ runPc = "rejected"
    /\ runReturn.kind = "error"
    /\ runReturn.error \in CannotFind
    /\ "fields" \notin Range(jobs)
    /\ pending = {}
    /\ Len(jobs) = Len(anchors)
    /\ \A m, n \in DOMAIN jobs : jobs[m] = jobs[n] => m = n

\* C14 witness: the passport's top anchor was found, the bottom anchor was
\* not, and run() is rejected with the bottom stage's error.
C14_Witness ==
  /\ doc = "passport"
  /\ anchors = <<TRUE, FALSE>>
  /\ jobs = <<"top", "bottom">>
  /\ runReturn = Rejected("Cannot find bottom-right end of passport")

(***************************************************************************)
(* Claims about the date correctors, checked under SpecDate                *)
(***************************************************************************)

\* The number a text of digits stands for, or -1 for any other text.
NumberOf(t) == IF t # <<>> /\ AllDigits(t, 1, Len(t)) THEN parseInt(t) ELSE -1

\* C15 (as claimed): for a day in 1..31, a year in 1900..2200 and a month
\* token within edit distance 2 of a table entry M, correctPassportDate
\* returns "DD M YYYY".
C15_MonthRoundTrip ==
  (/\ fn = "correctPassportDate"
   /\ arg.sep = <<" ">>
   /\ NumberOf(arg.day) \in 1..31
   /\ NumberOf(arg.year) \in 1900..2200)
  => \A n \in DOMAIN MONTHS :
       distance(arg.month, MONTHS[n]) <= 2
         => ret[1] = Str(pad0(NumberOf(arg.day)) \o <<" ">> \o MONTHS[n]
                           \o <<" ">> \o arg.year)

\* C16 (as claimed): a date corrector returns null for every text whose day
\* is greater than 31 or whose year is outside 1900..2200.
C16_OutOfRangeIsNull ==
  (/\ fn \in {"correctPassportDate", "correctDate"}
   /\ \/ NumberOf(arg.day) > 31
      \/ (NumberOf(arg.year) >= 0 /\ NumberOf(arg.year) \notin 1900..2200))
  => ret[1] = Null

\* C20 (as claimed): correctPassportDate maps "15 FEB 2O24" to
\* "15 FEB 2024".
C20_LetterOInYear ==
  (/\ fn = "correctPassportDate"
   /\ DateText(arg) = <<"1", "5", " ", "F", "E", "B", " ", "2", "O", "2", "4">>)
  => ret[1] = Str(<<"1", "5", " ", "F", "E", "B", " ", "2", "0", "2", "4">>)


\* C17: the alphabet corrector is idempotent: for every text and every
\* configuration (whitelist, maxLength, history on or off with a fixed
\* history) the corrector applied to its own result returns that result.
C17_AlphabetIdempotent ==
  (fn = "correctAlphabet" /\ Len(ret) = 2) => ret[2] = ret[1]

\* The call correctByHistory(V, history) has returned and the history
\* contains V.
RepeatCorrected ==
  /\ fn = "correctByHistory"
  /\ ret # <<>>
  /\ arg.hist.defined
  /\ arg.value \in Members(arg.hist.list)

\* C18, as claimed: for every history that contains a value V,
\* correctByHistory(V, history) returns V.
C18_ExactRepeatIsFixedPoint ==
  RepeatCorrected => ret[1] = Str(arg.value)

\* C18: for every history that contains a value V which is not empty and
\* has no leading, trailing or repeated whitespace, correctByHistory(V,
\* history) returns V.
C18_NormalisedRepeatIsFixedPoint ==
  (RepeatCorrected /\ arg.value # <<>> /\ trimWhitespace(arg.value) = arg.value)
    => ret[1] = Str(arg.value)

\* V is the second entry of the history, behind another entry one edit away
\* from it, and V came back.
C18_Witness ==
  /\ RepeatCorrected
  /\ arg.value = <<"A", "B">>
  /\ arg.hist.list = << <<"A", "A">>, <<"A", "B">> >>
  /\ ret = <<Str(<<"A", "B">>)>>

\* The call of an enum matcher built with exact=true has returned.
ExactMatched ==
  /\ fn = "correctEnums"
  /\ ret # <<>>
  /\ arg.opts.exact

\* The history entries an enum matcher takes as candidates.
HistoryCandidates ==
  IF arg.opts.history /\ arg.hist.defined THEN Members(arg.hist.list) ELSE {}

\* C19, as claimed: an enum matcher built with exact=true returns null or a
\* member of its supplied candidate set: the candidate list, unioned with
\* the history when history is enabled.
C19_ClosedWorldAsClaimed ==
  ExactMatched =>
    \/ ret[1].isNull
    \/ ret[1].text \in Members(arg.possibleEnums) \cup HistoryCandidates

\* C19: an enum matcher built with exact=true returns null, a member of its
\* candidate list, the upper-case form of a member of its candidate list,
\* or, when history is enabled, a member of the history.
C19_ClosedWorld ==
  ExactMatched =>
    \/ ret[1].isNull
    \/ ret[1].text \in Members(arg.possibleEnums) \cup HistoryCandidates
    \/ ret[1].text \in {toUpperCase(e) : e \in Members(arg.possibleEnums)}

\* A text one edit away from the only candidate was matched to it, with the
\* history disabled.
C19_Witness ==
  /\ ExactMatched
  /\ arg.possibleEnums = << <<"A", "B">> >>
  /\ ~arg.opts.history
  /\ arg.value = <<"A", "B", "B">>
  /\ ret = <<Str(<<"A", "B">>)>>

\* C21: the passport sex corrector maps raw "P / F" with empty history to
\* "P/F", and raw "L M" with a history containing "L/M" to "L/M".
C21_SexScenario ==
  /\ (/\ fn = "correctSex"
      /\ arg.value = <<"P", " ", "/", " ", "F">>
      /\ arg.hist = Defined(<<>>))
     => ret[1] = Str(<<"P", "/", "F">>)
  /\ (/\ fn = "correctSex"
      /\ arg.value = <<"L", " ", "M">>
      /\ arg.hist.defined
      /\ <<"L", "/", "M">> \in Members(arg.hist.list))
     => ret[1] = Str(<<"L", "/", "M">>)


\* C22: in every run() of either document type the locator finds the top
\* anchor, crops to it, finds the bottom anchor and cuts the canvas to the
\* canonical view, in that order and without skipping a step, before any
\* per-field recognition job is submitted.
C22_FieldsOnlyInCanonicalView ==
  (\E n \in DOMAIN jobs : jobs[n] = "fields")
    => (anchors = <<TRUE, TRUE>> /\ canvas = "canonical")


\* The lines of the page with more than 8 digits.
Qualifying == {n \in DOMAIN arg.lines : arg.lines[n].numberCount > 8}

\* locateViewAreaBottom has ended.
BottomScanned == fn = "locateViewAreaBottom" /\ ret # <<>>

\* C23: the passport bottom-anchor scan selects the last line with more
\* than 8 digits, whatever qualifying lines come before it: the end of the
\* passport it returns is that line's; and the stage fails with the
\* not-found error exactly when no line qualifies.
C23_LastQualifyingLine ==
  BottomScanned =>
    /\ (ret[1] = Thrown("Cannot find bottom-right end of passport")) <=> (Qualifying = {})
    /\ ret[1].kind = "located" =>
         \E n \in Qualifying :
           /\ \A m \in Qualifying : m <= n
           /\ ret[1].endY0 = arg.lines[n].y0
           /\ ret[1].endY1 = arg.lines[n].y1

\* The first and the fourth line qualify, and the fourth was selected.
C23_Witness ==
  /\ BottomScanned
  /\ Qualifying = {1, 4}
  /\ ret[1].kind = "located"
  /\ ret[1].endY0 = 40

\* C30: whenever the bottom-anchor scan finds a qualifying line,
\* locateViewAreaBottom returns a crop point taken from the lines above
\* that line, for every index of the qualifying line; it throws nothing but
\* the not-found error.
C30_CropPointAlwaysDefined ==
  (BottomScanned /\ Qualifying # {}) =>
    /\ ret[1].kind = "located"
    /\ \E n \in DOMAIN arg.lines :
         /\ \A m \in Qualifying : n < m
         /\ ret[1].y = arg.lines[n].y1


\* pool.latest() of the top-anchor search has resolved; the section tasks
\* return ShortCircuit, Complete or Ignore, never Error.
TopSearched ==
  /\ method = "latest"
  /\ callPc = "returned"
  /\ \A i \in DOMAIN taskResult : taskResult[i] # "error"

\* C24: in the passport top-anchor search, whenever some section's
\* recognition holds the title pair the locator uses the title pair with
\* its computed rotation, and it uses the PASPOR word with zero rotation
\* only when no section yields the title pair, in whatever order the
\* section jobs complete.
C24_TitlePairWins ==
  TopSearched =>
    /\ SomeShortCircuit =>
         TopAnchor(retval, taskResult) = [anchor |-> "REPUBLIK INDONESIA", angle |-> "computed"]
    /\ TopAnchor(retval, taskResult).anchor = "PASPOR" =>
         /\ ~SomeShortCircuit
         /\ TopAnchor(retval, taskResult).angle = "zero"

\* A section with the PASPOR word alone finished first, a section with the
\* title pair after it, and the title pair was taken.
C24_Witness ==
  /\ TopSearched
  /\ scBy # <<>>
  /\ \E i \in DOMAIN taskResult : taskResult[i] = "complete" /\ SettledBefore(i, scBy[1])
  /\ TopAnchor(retval, taskResult).anchor = "REPUBLIK INDONESIA"


\* C25: in the ID-card top locator, if any recognized line holds the NIK
\* anchor the locator succeeds with that anchor and does not throw,
\* whether or not PROVINSI is found and whichever lines the two are on.
C25_NIKAloneSuffices ==
  (/\ fn = "KTPLocateViewAreaTop"
   /\ ret # <<>>
   /\ \E n \in DOMAIN arg.lines : arg.lines[n].nik)
    => /\ ret[1].kind = "located"
       /\ arg.lines[ret[1].nikWord[1]].nik


\* scheduler.getNumWorkers() of scheduler id: the workers that addWorker
\* has been called for.
getNumWorkers(id) ==
  Cardinality({w \in (DOMAIN calls) \X (1..DefaultCount) :
                 /\ calls[w[1]].created
                 /\ calls[w[1]].sched = id
                 /\ w[2] \in DOMAIN calls[w[1]].workers
                 /\ calls[w[1]].workers[w[2]].pc = "added"})

\* C26: whenever a getScheduler(key) call has resolved, the scheduler it
\* returned holds all config.count workers of that key, so the worker count
\* read from it is the configured pool size and at least 1, for every
\* interleaving with the initialization the constructor started.
C26_ResolvedSchedulerIsFull ==
  \A c \in DOMAIN calls :
    calls[c].pc = "returned" =>
      /\ getNumWorkers(calls[c].sched) = configs[calls[c].key].count
      /\ getNumWorkers(calls[c].sched) >= 1


\* The characters the alphabet filter is to keep: the letters A-Z and the
\* whitelist.
Allowed == Members(UpperLetters) \cup Members(arg.opts.whitelist)

\* C27: with history disabled the alphabet filter returns null or a
\* non-empty string of letters A-Z and whitelisted characters only, of at
\* most maxLength characters when one is given; and it returns null exactly
\* when the upper-cased input holds no letter and no whitelisted character
\* other than whitespace.
C27_OnlyLettersAndWhitelist ==
  (fn = "correctAlphabet" /\ ret # <<>> /\ ~arg.opts.withHistory) =>
    /\ ~ret[1].isNull =>
         /\ ret[1].text # <<>>
         /\ Members(ret[1].text) \subseteq Allowed
         /\ arg.opts.hasMaxLength => Len(ret[1].text) <= arg.opts.maxLength
    /\ ret[1].isNull <=>
         ~\E c \in Members(toUpperCase(arg.value)) : c \in Allowed /\ ~IsSpace(c)


\* C28: for every count >= 0 and every limit >= 0, if every task's promise
\* eventually settles, a call of run() or latest() eventually returns or
\* throws.
C28_PoolSettles ==
  (method # "none") ~> (callPc \in {"returned", "thrown"})


\* The number of times task i's promise has settled.
TimesSettled(i) == Cardinality({p \in DOMAIN settled : settled[p] = i})

\* C29: across all lanes of one TaskPool call the task indices are claimed
\* in increasing order 0, 1, 2, ... (every step starts exactly the tasks from
\* the tracker's index up to its new index), no index is given to the task
\* function twice, and when the call has returned without a ShortCircuit or
\* Error result every index in 0..count-1 was run exactly once.
C29_IndicesInOrderOnce ==
  /\ [][/\ tracker'.index >= tracker.index
        /\ inflight' \ inflight = tracker.index..(tracker'.index - 1)]_vars
  /\ [](/\ \A i \in DOMAIN taskResult : TimesSettled(i) <= 1
        /\ \A l, m \in DOMAIN lanes :
             (l # m /\ lanes[l].pc = "awaitTask" /\ lanes[m].pc = "awaitTask")
               => lanes[l].index # lanes[m].index
        /\ (/\ callPc = "returned"
            /\ \A i \in DOMAIN taskResult : taskResult[i] \notin {"short-circuit", "error"})
           => \A i \in 0..(options.count - 1) : TimesSettled(i) = 1)

\* Three tasks on two lanes, none short-circuiting or failing, finished in
\* another order than they were claimed, and run() returned.
C29_Witness ==
  /\ method = "run"
  /\ callPc = "returned"
  /\ options = [count |-> 3, limit |-> 2]
  /\ settled = <<1, 0, 2>>
  /\ \A i \in DOMAIN taskResult : taskResult[i] \in {"complete", "ignore"}


=============================================================================
